---------------------------- MODULE Spec2Model ----------------------------
(***************************************************************************)
(* Model of scripts/clean_raw_data.py: seven cleaners that read CSV files  *)
(* from data/raw, filter and coerce them with pandas, and write the result *)
(* to data/processed; main() calls them in a fixed order.                  *)
(*                                                                         *)
(* A file is a record [exists, cols, rows].  A raw CSV holds text: each    *)
(* row maps a column name to the text of its field.  A DataFrame holds     *)
(* typed cells (NaN, Str, Num, Date); a processed file holds the cells of  *)
(* the DataFrame that to_csv wrote (to_csv writes NaN as an empty field    *)
(* and everything else as non-empty text).                                 *)
(*                                                                         *)
(* Every raw file the model draws has the columns its cleaner indexes      *)
(* without a guard; columns the code tests for (year, Datetime, date,      *)
(* sampling_date, ...) may be present or not.                              *)
(***************************************************************************)
EXTENDS Integers, Sequences, FiniteSets, TLC

VARIABLES
    fs,        \* the file system: path -> file
    pc,        \* the statement of main() that runs next, or "done"/"aborted"
    console,   \* the lines printed so far by this run
    run,       \* how many times the script has been started
    firstRun,  \* data/processed as the first run left it
    reads,     \* paths whose content some cleaner has read
    writes     \* paths some cleaner has written

vars == <<fs, pc, console, run, firstRun, reads, writes>>

---------------------------------------------------------------------------
(* Bounds of the model *)

\* rows of a raw table in the one-cleaner specifications
MaxRows == 2
\* rows of a raw table in the aggregate specification
AggRows == 4
\* how many times in a row the script is run
MaxRuns == 2

---------------------------------------------------------------------------
(* Cells *)

NaN == [k |-> "nan", s |-> "", n |-> 0, d |-> 1]
Str(s) == [k |-> "str", s |-> s, n |-> 0, d |-> 1]
Num(n) == [k |-> "num", s |-> "", n |-> n, d |-> 1]
Date(n) == [k |-> "date", s |-> "", n |-> n, d |-> 1]

RECURSIVE Gcd(_, _)
Gcd(a, b) == IF b = 0 THEN a ELSE Gcd(b, a % b)

Abs(a) == IF a < 0 THEN -a ELSE a

\* the number n/d (d > 0), in lowest terms
Frac(n, d) ==
    LET g == Gcd(Abs(n), d)
    IN  [k |-> "num", s |-> "", n |-> n \div g, d |-> d \div g]

isna(c) == c.k = "nan"
notna(c) == ~isna(c)

\* The text of the decimal literals of the model, with their values.
NumVal ==
    ("80" :> 80) @@ ("150" :> 150) @@ ("35" :> 35) @@ ("4" :> 4) @@
    ("28" :> 28) @@ ("77" :> 77) @@
    ("2019" :> 2019) @@ ("2020" :> 2020) @@ ("2024" :> 2024) @@ ("2025" :> 2025)

\* The text of the dates of the model, with their values as yyyymmdd.
DateVal ==
    ("2014-12-31" :> 20141231) @@ ("2015-01-01" :> 20150101) @@
    ("2019-12-31" :> 20191231) @@ ("2020-01-15" :> 20200115) @@
    ("2020-03-01" :> 20200301) @@ ("2020-05-31" :> 20200531) @@
    ("2020-06-01" :> 20200601) @@ ("2021-03-01" :> 20210301)

\* pandas' default NA tokens (those the model uses)
DefaultNa == {"", "NA", "N/A", "nan", "NaN", "null"}

---------------------------------------------------------------------------
(* pandas operations, as the script calls them *)

\* DataFrame.columns of a row sequence with known columns
Column(df, c) == [i \in DOMAIN df.rows |-> df.rows[i][c]]

\* The dtype of a column read or held as text is object: some cell is a str.
IsObject(df, c) == \E i \in DOMAIN df.rows : df.rows[i][c].k = "str"

\* pd.read_csv(path, low_memory=False[, na_values=...]): NA tokens become
\* NaN; a column whose other fields are all decimal literals is numeric;
\* any other column is object and keeps every field as a str.
read_csv(file, na_values) ==
    LET na == DefaultNa \cup na_values
        numeric(c) ==
            \A i \in DOMAIN file.rows :
                file.rows[i][c] \in na \/ file.rows[i][c] \in DOMAIN NumVal
        cell(c, t) ==
            IF t \in na THEN NaN
            ELSE IF numeric(c) THEN Num(NumVal[t])
            ELSE Str(t)
    IN  [cols |-> file.cols,
         rows |-> [i \in DOMAIN file.rows |->
                     [c \in file.cols |-> cell(c, file.rows[i][c])]]]

\* one element of pd.to_numeric(..., errors="coerce")
to_numeric_cell(c) ==
    CASE c.k = "num" -> c
      [] c.k = "str" -> IF c.s \in DOMAIN NumVal THEN Num(NumVal[c.s]) ELSE NaN
      [] c.k = "date" -> Num(c.n)
      [] OTHER -> NaN

\* one element of pd.to_datetime(..., errors="coerce"); a number is taken
\* as nanoseconds since the epoch
to_datetime_cell(c) ==
    CASE c.k = "date" -> c
      [] c.k = "str" -> IF c.s \in DOMAIN DateVal THEN Date(DateVal[c.s]) ELSE NaN
      [] c.k = "num" -> Date(19700101)
      [] OTHER -> NaN

\* one element of Series.astype(str): NaN becomes the text "nan"
astype_str_cell(c) ==
    CASE c.k = "nan" -> Str("nan")
      [] c.k = "str" -> c
      [] OTHER -> Str(ToString(c.n))

\* df[c] = f(df[c]) applied elementwise
SetCol(df, c, f(_)) ==
    [cols |-> df.cols \cup {c},
     rows |-> [i \in DOMAIN df.rows |->
                 [x \in df.cols \cup {c} |->
                     IF x = c THEN f(df.rows[i][c]) ELSE df.rows[i][x]]]]

to_numeric(df, c) == SetCol(df, c, to_numeric_cell)
to_datetime(df, c) == SetCol(df, c, to_datetime_cell)
astype_str(df, c) == SetCol(df, c, astype_str_cell)

\* for c in cs: if c in df.columns: df[c] = pd.to_numeric(df[c], errors="coerce")
coerce_numeric(df, cs) ==
    [cols |-> df.cols,
     rows |-> [i \in DOMAIN df.rows |->
                 [x \in df.cols |->
                     IF x \in cs THEN to_numeric_cell(df.rows[i][x])
                     ELSE df.rows[i][x]]]]

\* df = f(df): the value of v is computed once and handed to f
Then(v, f(_)) == CHOOSE y \in {f(x) : x \in {v}} : TRUE

\* f(a, b) on the values of a and b
Then2(a, b, f(_, _)) == CHOOSE y \in {f(x, z) : x \in {a}, z \in {b}} : TRUE

\* df[mask]
Filter(df, keep(_)) == [cols |-> df.cols, rows |-> SelectSeq(df.rows, keep)]

\* df.dropna(subset=cs)
dropna(df, cs) == Filter(df, LAMBDA r : \A c \in cs : notna(r[c]))

\* df.to_csv(out, index=False): the file holds the frame's columns and rows
to_csv(df) == [exists |-> TRUE, cols |-> df.cols, rows |-> df.rows]

NoFile == [exists |-> FALSE, cols |-> {}, rows |-> <<>>]

---------------------------------------------------------------------------
(* Paths *)

RAW_DIR == "data/raw"
PROCESSED_DIR == "data/processed"

RawNames ==
    {"delhi_ncr_aqi.csv", "delhi_ncr_aqi_dataset.csv", "city_day.csv",
     "india_varios.csv", "major_city.csv", "India_dataset.csv",
     "processed_aqi_data.csv", "india_states.geojson"}

OutNames ==
    {"delhi_ncr_aqi_2020_2024_clean.csv", "city_day_clean.csv",
     "covid_city_aqi_change_2015_2020.csv", "india_pm25_snapshot_clean.csv",
     "major_city_clean.csv", "india_historical_clean.csv",
     "processed_aqi_data_clean.csv", "india_states.geojson"}

Raw(name) == <<RAW_DIR, name>>
Out(name) == <<PROCESSED_DIR, name>>

Paths == {Raw(f) : f \in RawNames} \cup {Out(f) : f \in OutNames}

\* print(...)
Line(kind, name, n) == [kind |-> kind, name |-> name, n |-> n]

\* an uncaught exception ends the process
Raise(what) ==
    /\ pc' = "aborted"
    /\ console' = Append(console, Line("Traceback", what, 0))
    /\ UNCHANGED <<fs, writes>>

\* Save with the frame appended to the file already there (to_csv(mode="a"))
SaveAppend(name, df, next) ==
    /\ fs' = [fs EXCEPT ![Out(name)] =
                 [exists |-> TRUE, cols |-> @.cols \cup df.cols, rows |-> @.rows \o df.rows]]
    /\ writes' = writes \cup {Out(name)}
    /\ console' = Append(console, Line("Saved", name, Len(df.rows)))
    /\ pc' = next

\* df.to_csv(out); print(f"Saved {out.name} ({len(df):,} rows)")
Save(name, df, next) ==
    /\ fs' = [fs EXCEPT ![Out(name)] = to_csv(df)]
    /\ writes' = writes \cup {Out(name)}
    /\ console' = Append(console, Line("Saved", name, Len(df.rows)))
    /\ pc' = next

\* Skip without the exists() test: reading the missing file raises
SkipRaises(name, next) == Raise("FileNotFoundError")

\* print("Skip ..."); return
Skip(name, next) ==
    /\ console' = Append(console, Line("Skip", name, 0))
    /\ pc' = next
    /\ UNCHANGED <<fs, writes>>

---------------------------------------------------------------------------
(* clean_delhi_ncr_aqi *)

num_cols ==
    {"pm25", "pm10", "no2", "so2", "co", "o3", "latitude", "longitude", "aqi",
     "temperature", "humidity", "wind_speed", "visibility"}

YearLow == 2020
YearHigh == 2024

\* one element of Series.between(left, right) on a numeric column
between(c, left, right) == c.k = "num" /\ left * c.d <= c.n /\ c.n <= right * c.d

\* Series.between on an object column compares each str with an int, which
\* raises TypeError; NaN elements compare False without raising.
between_raises(df, c) == \E i \in DOMAIN df.rows : df.rows[i][c].k = "str"

\* the body of the loop of clean_delhi_ncr_aqi for an existing file
\* if c in df.columns and df[c].dtype == object: df[c] = pd.to_datetime(df[c], ...)
parse_if_object(df, c) ==
    IF c \in df.cols /\ IsObject(df, c) THEN to_datetime(df, c) ELSE df

delhi_frame(file) ==
    Then(Then(Then(Then(file,
        LAMBDA f : read_csv(f, {})),
        LAMBDA df : parse_if_object(df, "datetime")),
        LAMBDA df : parse_if_object(df, "date")),
        LAMBDA df : dropna(df, {"aqi", "pm25"}))

delhi_year_raises(df) == "year" \in df.cols /\ between_raises(df, "year")

\* if "year" in df.columns: df = df[df["year"].between(2020, 2024)]
keep_years(df) ==
    IF "year" \in df.cols
    THEN Filter(df, LAMBDA r : between(r["year"], YearLow, YearHigh))
    ELSE df

delhi_out(df) == Then(Then(df, keep_years), LAMBDA d : coerce_numeric(d, num_cols))

delhi_candidates == <<"delhi_ncr_aqi.csv", "delhi_ncr_aqi_dataset.csv">>

clean_delhi_ncr_aqi ==
    /\ pc = "clean_delhi_ncr_aqi"
    /\ LET found == {i \in DOMAIN delhi_candidates : fs[Raw(delhi_candidates[i])].exists}
       IN  IF found = {}
           THEN /\ Skip("delhi_ncr", "clean_city_day")
                /\ UNCHANGED reads
           ELSE LET i == CHOOSE j \in found : \A m \in found : j <= m
                    path == Raw(delhi_candidates[i])
                IN  /\ reads' = reads \cup {path}
                    /\ \E df \in {delhi_frame(fs[path])} :
                          IF delhi_year_raises(df)
                          THEN Raise("TypeError")
                          ELSE \E out \in {delhi_out(df)} :
                                  Save("delhi_ncr_aqi_2020_2024_clean.csv", out,
                                       "clean_city_day")
    /\ UNCHANGED <<run, firstRun>>

---------------------------------------------------------------------------
(* clean_city_day *)

measure_cols == {"PM2.5", "PM10", "NO", "NO2", "CO", "SO2", "O3", "AQI"}

PreFrom == 20150101
PreTo == 20191231
CovidFrom == 20200301
CovidTo == 20200531

\* Series.dt.year
dt_year(c) == IF c.k = "date" THEN Num(c.n \div 10000) ELSE NaN

\* (df["Date"] >= lo) & (df["Date"] <= hi), one element
date_in(c, lo, hi) == c.k = "date" /\ lo <= c.n /\ c.n <= hi

\* the order of the city names of the model (groupby sorts its keys)
CityRank == ("A" :> 1) @@ ("B" :> 2)

RECURSIVE SumNum(_)
SumNum(cells) ==
    IF cells = <<>> THEN Frac(0, 1)
    ELSE LET h == Head(cells)
             t == SumNum(Tail(cells))
         IN  Frac(h.n * t.d + t.n * h.d, h.d * t.d)

\* Series.mean(): NaN elements are skipped; the mean of none is NaN
mean(cells) ==
    LET present == SelectSeq(cells, notna)
        total == SumNum(present)
    IN  IF present = <<>> THEN NaN ELSE Frac(total.n, total.d * Len(present))

\* a - b on floats
Sub(a, b) ==
    IF isna(a) \/ isna(b) THEN NaN
    ELSE Frac(a.n * b.d - b.n * a.d, a.d * b.d)

\* a >= b on floats; False when either is NaN
Ge(a, b) == notna(a) /\ notna(b) /\ a.n * b.d >= b.n * a.d

\* the group keys of df.groupby(key): the non-NaN keys, sorted
RECURSIVE SortedKeys(_)
SortedKeys(S) ==
    IF S = {} THEN <<>>
    ELSE LET m == CHOOSE x \in S : \A y \in S : CityRank[x] <= CityRank[y]
         IN  <<m>> \o SortedKeys(S \ {m})

\* df.groupby(key)[val].mean().reset_index(name=name)
groupby_mean(df, key, val, name) ==
    LET keys == SortedKeys({df.rows[i][key].s : i \in {j \in DOMAIN df.rows : notna(df.rows[j][key])}})
        group(kv) == SelectSeq(df.rows, LAMBDA r : r[key] = Str(kv))
        vals(kv) == [i \in DOMAIN group(kv) |-> group(kv)[i][val]]
    IN  [cols |-> {key, name},
         rows |-> [i \in DOMAIN keys |->
                     (key :> Str(keys[i])) @@ (name :> mean(vals(keys[i])))]]

\* left.merge(right, on=key, how="inner"); the keys of both sides are unique
merge_inner(left, right, key) ==
    LET hit(r) == \E j \in DOMAIN right.rows : right.rows[j][key] = r[key]
        other(r) == right.rows[CHOOSE j \in DOMAIN right.rows : right.rows[j][key] = r[key]]
        kept == SelectSeq(left.rows, hit)
    IN  [cols |-> left.cols \cup right.cols,
         rows |-> [i \in DOMAIN kept |-> kept[i] @@ other(kept[i])]]

\* insertion of r behind every row whose key is >= r's
RECURSIVE InsertDesc(_, _, _)
InsertDesc(sorted, r, c) ==
    IF sorted = <<>> THEN <<r>>
    ELSE IF Ge(Head(sorted)[c], r[c]) THEN <<Head(sorted)>> \o InsertDesc(Tail(sorted), r, c)
    ELSE <<r>> \o sorted

RECURSIVE SortDesc(_, _)
SortDesc(rows, c) ==
    IF rows = <<>> THEN <<>>
    ELSE InsertDesc(SortDesc(SubSeq(rows, 1, Len(rows) - 1), c), rows[Len(rows)], c)

\* df.sort_values(c, ascending=False): descending, NaN last, ties in order
sort_values_desc(df, c) ==
    [cols |-> df.cols,
     rows |-> SortDesc(SelectSeq(df.rows, LAMBDA r : notna(r[c])), c)
              \o SelectSeq(df.rows, LAMBDA r : isna(r[c]))]

\* df after the date parse, the year column and the numeric coercion
\* df["year"] = df["Date"].dt.year
add_year(df) ==
    [cols |-> df.cols \cup {"year"},
     rows |-> [i \in DOMAIN df.rows |->
                 ("year" :> dt_year(df.rows[i]["Date"])) @@ df.rows[i]]]

city_day_frame(file) ==
    Then(Then(Then(Then(Then(file,
        LAMBDA f : read_csv(f, {})),
        LAMBDA df : to_datetime(df, "Date")),
        LAMBDA df : dropna(df, {"Date"})),
        add_year),
        LAMBDA df : coerce_numeric(df, measure_cols))

\* city_day_clean without the City filter of line 66
city_day_clean_any_city(df) == dropna(df, {"AQI"})

city_day_clean(df) ==
    Then(Then(df, LAMBDA d : dropna(d, {"AQI"})),
         LAMBDA d : Filter(d, LAMBDA r : notna(r["City"])))

\* pre = df[(df["Date"] >= "2015-01-01") & (df["Date"] <= "2019-12-31")]
\* pre_avg = pre.groupby("City")["AQI"].mean().reset_index(name="aqi_pre")
pre_avg(df) ==
    Then(Then(df, LAMBDA d : Filter(d, LAMBDA r : date_in(r["Date"], PreFrom, PreTo))),
         LAMBDA pre : groupby_mean(pre, "City", "AQI", "aqi_pre"))

\* covid = df[(df["Date"] >= "2020-03-01") & (df["Date"] <= "2020-05-31")]
\* covid_avg = covid.groupby("City")["AQI"].mean().reset_index(name="aqi_covid")
covid_avg(df) ==
    Then(Then(df, LAMBDA d : Filter(d, LAMBDA r : date_in(r["Date"], CovidFrom, CovidTo))),
         LAMBDA covid : groupby_mean(covid, "City", "AQI", "aqi_covid"))

\* city_change["aqi_drop"] = city_change["aqi_pre"] - city_change["aqi_covid"]
add_aqi_drop(df) ==
    [cols |-> df.cols \cup {"aqi_drop"},
     rows |-> [i \in DOMAIN df.rows |->
                 ("aqi_drop" :> Sub(df.rows[i]["aqi_pre"], df.rows[i]["aqi_covid"]))
                 @@ df.rows[i]]]

city_change(df) ==
    Then(Then(Then2(pre_avg(df), covid_avg(df),
                    LAMBDA l, r : merge_inner(l, r, "City")),
              add_aqi_drop),
         LAMBDA d : sort_values_desc(d, "aqi_drop"))

clean_city_day ==
    /\ pc = "clean_city_day"
    /\ LET path == Raw("city_day.csv")
       IN  IF ~fs[path].exists
           THEN /\ Skip("city_day", "clean_india_varios")
                /\ UNCHANGED reads
           ELSE \E df \in {city_day_frame(fs[path])} :
                \E df_clean \in {city_day_clean(df)}, change \in {city_change(df)} :
                    /\ reads' = reads \cup {path}
                    /\ fs' = [fs EXCEPT
                                ![Out("city_day_clean.csv")] = to_csv(df_clean),
                                ![Out("covid_city_aqi_change_2015_2020.csv")] = to_csv(change)]
                    /\ writes' = writes \cup {Out("city_day_clean.csv"),
                                              Out("covid_city_aqi_change_2015_2020.csv")}
                    /\ console' = console \o
                          <<Line("Saved", "city_day_clean.csv", Len(df_clean.rows)),
                            Line("Saved", "covid_city_aqi_change_2015_2020.csv",
                                 Len(change.rows))>>
                    /\ pc' = "clean_india_varios"
    /\ UNCHANGED <<run, firstRun>>

---------------------------------------------------------------------------
(* clean_india_varios *)

\* The characters of the texts a pollutant_id field takes in the model.
Chars ==
    ("PM2.5" :> <<"P", "M", "2", ".", "5">>) @@
    ("pm2.5" :> <<"p", "m", "2", ".", "5">>) @@
    (" Pm2.5 " :> <<" ", "P", "m", "2", ".", "5", " ">>) @@
    ("PM10" :> <<"P", "M", "1", "0">>) @@
    ("NO2" :> <<"N", "O", "2">>) @@
    ("nan" :> <<"n", "a", "n">>)

\* the pattern "PM", which PM10 matches too
PmPattern == <<"P", "M">>

\* the pattern of str.contains
Pm2Pattern == <<"P", "M", "2">>

UpperOf == ("p" :> "P") @@ ("m" :> "M") @@ ("n" :> "N") @@ ("a" :> "A") @@ ("o" :> "O")

upper(cs) == [i \in DOMAIN cs |-> IF cs[i] \in DOMAIN UpperOf THEN UpperOf[cs[i]] ELSE cs[i]]

\* str.strip()
RECURSIVE lstrip(_)
lstrip(cs) == IF cs # <<>> /\ Head(cs) = " " THEN lstrip(Tail(cs)) ELSE cs

RECURSIVE rstrip(_)
rstrip(cs) ==
    IF cs # <<>> /\ cs[Len(cs)] = " " THEN rstrip(SubSeq(cs, 1, Len(cs) - 1)) ELSE cs

strip(cs) == rstrip(lstrip(cs))

\* str.contains(pat, case=False, na=False) on one str
contains_nocase(cs, pat) ==
    \E i \in 1..(Len(cs) - Len(pat) + 1) :
        upper(SubSeq(cs, i, i + Len(pat) - 1)) = upper(pat)

\* pid = df["pollutant_id"].astype(str).str.strip(); the mask of line 93
is_pm2(c) == contains_nocase(strip(Chars[astype_str_cell(c).s]), Pm2Pattern)

\* df.rename(columns={old: new})
rename(df, old, new) ==
    IF old \notin df.cols THEN df
    ELSE LET cols == (df.cols \ {old}) \cup {new}
         IN  [cols |-> cols,
              rows |-> [i \in DOMAIN df.rows |->
                          [x \in cols |->
                              IF x = new THEN df.rows[i][old] ELSE df.rows[i][x]]]]

varios_required == {"pm25", "latitude", "longitude"}

\* if "pm25" not in df.columns and "pollutant_avg" in df.columns:
\*     df["pm25"] = pd.to_numeric(df["pollutant_avg"], errors="coerce")
pm25_from_avg(df) ==
    IF "pm25" \notin df.cols /\ "pollutant_avg" \in df.cols
    THEN [cols |-> df.cols \cup {"pm25"},
          rows |-> [i \in DOMAIN df.rows |->
                      ("pm25" :> to_numeric_cell(df.rows[i]["pollutant_avg"]))
                      @@ df.rows[i]]]
    ELSE df

india_varios_out(file) ==
    Then(Then(Then(Then(Then(Then(file,
        LAMBDA f : read_csv(f, {})),
        LAMBDA df : Filter(df, LAMBDA r : is_pm2(r["pollutant_id"]))),
        LAMBDA df : rename(df, "pollutant_avg", "pm25")),
        pm25_from_avg),
        LAMBDA df : to_numeric(df, "pm25")),
        LAMBDA df : dropna(df, varios_required))

clean_india_varios ==
    /\ pc = "clean_india_varios"
    /\ LET path == Raw("india_varios.csv")
       IN  IF ~fs[path].exists
           THEN /\ Skip("india_varios", "clean_major_city")
                /\ UNCHANGED reads
           ELSE /\ reads' = reads \cup {path}
                /\ \E out \in {india_varios_out(fs[path])} :
                      Save("india_pm25_snapshot_clean.csv", out, "clean_major_city")
    /\ UNCHANGED <<run, firstRun>>

---------------------------------------------------------------------------
(* clean_major_city *)

\* date_col = "Datetime" if "Datetime" in df.columns else "Date"
date_col(cols) == IF "Datetime" \in cols THEN "Datetime" ELSE "Date"

major_city_out(file) ==
    Then(Then(Then(Then(file,
        LAMBDA f : read_csv(f, {})),
        LAMBDA df : to_datetime(df, date_col(file.cols))),
        LAMBDA df : dropna(df, {date_col(file.cols), "AQI"})),
        LAMBDA df : coerce_numeric(df, measure_cols))

clean_major_city ==
    /\ pc = "clean_major_city"
    /\ LET path == Raw("major_city.csv")
       IN  IF ~fs[path].exists
           THEN /\ Skip("major_city", "clean_india_dataset")
                /\ UNCHANGED reads
           ELSE /\ reads' = reads \cup {path}
                /\ \E out \in {major_city_out(fs[path])} :
                      Save("major_city_clean.csv", out, "clean_india_dataset")
    /\ UNCHANGED <<run, firstRun>>

---------------------------------------------------------------------------
(* clean_india_dataset *)

india_na_values == {"NA", "N/A", ""}

india_num_cols == {"so2", "no2", "rspm", "spm", "pm2_5"}

\* df.dropna(how="all", axis=1): the columns with some non-NaN element stay
dropna_all_columns(df) ==
    LET cols == {c \in df.cols : \E i \in DOMAIN df.rows : notna(df.rows[i][c])}
    IN  [cols |-> cols,
         rows |-> [i \in DOMAIN df.rows |-> [c \in cols |-> df.rows[i][c]]]]

india_dataset_out(file) ==
    Then(Then(Then(Then(Then(file,
        LAMBDA f : read_csv(f, india_na_values)),
        LAMBDA df : IF "date" \in df.cols THEN to_datetime(df, "date") ELSE df),
        LAMBDA df : IF "sampling_date" \in df.cols
                    THEN astype_str(df, "sampling_date") ELSE df),
        LAMBDA df : coerce_numeric(df, india_num_cols)),
        dropna_all_columns)

clean_india_dataset ==
    /\ pc = "clean_india_dataset"
    /\ LET path == Raw("India_dataset.csv")
       IN  IF ~fs[path].exists
           THEN /\ Skip("India_dataset", "clean_processed_aqi_data")
                /\ UNCHANGED reads
           ELSE /\ reads' = reads \cup {path}
                /\ \E out \in {india_dataset_out(fs[path])} :
                      Save("india_historical_clean.csv", out, "clean_processed_aqi_data")
    /\ UNCHANGED <<run, firstRun>>

---------------------------------------------------------------------------
(* clean_processed_aqi_data, copy_geojson, main *)

processed_num_cols ==
    {"pm25", "pm10", "co", "no2", "o3", "so2", "aqi", "hour", "day", "month", "year"}

processed_aqi_out(file) ==
    Then(Then(Then(file,
        LAMBDA f : read_csv(f, {})),
        LAMBDA df : IF "timestamp" \in df.cols THEN to_datetime(df, "timestamp") ELSE df),
        LAMBDA df : coerce_numeric(df, processed_num_cols))

clean_processed_aqi_data ==
    /\ pc = "clean_processed_aqi_data"
    /\ LET path == Raw("processed_aqi_data.csv")
       IN  IF ~fs[path].exists
           THEN /\ Skip("processed_aqi_data", "copy_geojson")
                /\ UNCHANGED reads
           ELSE /\ reads' = reads \cup {path}
                /\ \E out \in {processed_aqi_out(fs[path])} :
                      Save("processed_aqi_data_clean.csv", out, "copy_geojson")
    /\ UNCHANGED <<run, firstRun>>

copy_geojson ==
    /\ pc = "copy_geojson"
    /\ LET src == Raw("india_states.geojson")
           dst == Out("india_states.geojson")
       IN  IF ~fs[src].exists
           THEN /\ Skip("india_states.geojson", "print_done")
                /\ UNCHANGED reads
           ELSE /\ reads' = reads \cup {src}
                /\ fs' = [fs EXCEPT ![dst] = fs[src]]
                /\ writes' = writes \cup {dst}
                /\ console' = Append(console, Line("Copied", "india_states.geojson", 0))
                /\ pc' = "print_done"
    /\ UNCHANGED <<run, firstRun>>

\* os.chdir(PROJECT_ROOT); print("Cleaning raw data -> data/processed/\n")
main ==
    /\ pc = "main"
    /\ console' = Append(console, Line("Cleaning raw data -> data/processed/", "", 0))
    /\ pc' = "clean_delhi_ncr_aqi"
    /\ UNCHANGED <<fs, run, firstRun, reads, writes>>

\* print("\nDone.")
print_done ==
    /\ pc = "print_done"
    /\ console' = Append(console, Line("Done.", "", 0))
    /\ pc' = "done"
    /\ UNCHANGED <<fs, run, firstRun, reads, writes>>

\* data/processed as a whole
Processed == [f \in OutNames |-> fs[Out(f)]]

\* the script is started again on the same files
rerun ==
    /\ pc \in {"done", "aborted"}
    /\ run < MaxRuns
    /\ run' = run + 1
    /\ firstRun' = IF run = 1 THEN Processed ELSE firstRun
    /\ pc' = "main"
    /\ console' = <<>>
    /\ UNCHANGED <<fs, reads, writes>>


---------------------------------------------------------------------------
(* Inputs *)

\* every sequence of at most n elements of S
SeqUpTo(S, n) == UNION {[1..m -> S] : m \in 0..n}

Table(cols, rows) == [exists |-> TRUE, cols |-> cols, rows |-> rows]

EmptyDisk == [p \in Paths |-> NoFile]

DelhiRows == [aqi : {"", "abc", "150"}, pm25 : {"", "x", "80"}]
DelhiRowsYear ==
    [aqi : {"", "abc", "150"}, pm25 : {"", "x", "80"},
     year : {"", "2019", "2020", "2024", "2025", "abc"}]

\* the Delhi tables of at most n rows
DelhiTables(n) ==
    {Table({"aqi", "pm25"}, rs) : rs \in SeqUpTo(DelhiRows, n)}
    \cup {Table({"aqi", "pm25", "year"}, rs) : rs \in SeqUpTo(DelhiRowsYear, n)}

Start(disk, at) ==
    /\ fs = disk
    /\ pc = at
    /\ console = <<>>
    /\ run = 1
    /\ firstRun = [f \in OutNames |-> NoFile]
    /\ reads = {}
    /\ writes = {}

\* the fallback file, when it is there beside the preferred one
DelhiFallback == Table({"aqi", "pm25"}, <<[aqi |-> "150", pm25 |-> "80"]>>)

InitDelhi ==
    \/ \E t \in DelhiTables(MaxRows), f \in {1, 2} :
          Start([EmptyDisk EXCEPT ![Raw(delhi_candidates[f])] = t], "clean_delhi_ncr_aqi")
    \/ \E t \in DelhiTables(MaxRows) :
          Start([EmptyDisk EXCEPT ![Raw(delhi_candidates[1])] = t,
                                  ![Raw(delhi_candidates[2])] = DelhiFallback],
                "clean_delhi_ncr_aqi")
    \/ Start(EmptyDisk, "clean_delhi_ncr_aqi")

SpecDelhi == InitDelhi /\ [][clean_delhi_ncr_aqi]_vars

CityRows ==
    [City : {"", "A"}, Date : {"", "bad", "2019-12-31", "2020-03-01"},
     AQI : {"", "x", "80"}]

\* the City tables of at most n rows
CityTables(n) == {Table({"City", "Date", "AQI"}, rs) : rs \in SeqUpTo(CityRows, n)}

InitCityDay ==
    \E t \in CityTables(MaxRows) \cup {NoFile} :
        Start([EmptyDisk EXCEPT ![Raw("city_day.csv")] = t], "clean_city_day")

SpecCityDay == InitCityDay /\ [][clean_city_day]_vars

AggRowSet ==
    [City : {"", "A", "B"}, Date : {"2019-12-31", "2020-03-01", "2020-06-01"},
     AQI : {"", "80", "150"}]

\* the Agg tables of at most n rows
AggTables(n) == {Table({"City", "Date", "AQI"}, rs) : rs \in SeqUpTo(AggRowSet, n)}

InitCityAgg ==
    \E t \in AggTables(AggRows) :
        Start([EmptyDisk EXCEPT ![Raw("city_day.csv")] = t], "clean_city_day")

SpecCityAgg == InitCityAgg /\ [][clean_city_day]_vars

VariosIds == {"", "pm2.5", " Pm2.5 ", "PM10"}

VariosRowsAvg ==
    [pollutant_id : VariosIds, pollutant_avg : {"", "x", "35"},
     latitude : {"", "28"}, longitude : {"77"}]
    \cup [pollutant_id : VariosIds, pollutant_avg : {"35"},
          latitude : {"28"}, longitude : {""}]

VariosRowsPm25 ==
    [pollutant_id : VariosIds, pm25 : {"", "x", "35"},
     latitude : {"28"}, longitude : {"77"}]

\* the Varios tables of at most n rows
VariosTables(n) ==
    {Table({"pollutant_id", "pollutant_avg", "latitude", "longitude"}, rs) :
        rs \in SeqUpTo(VariosRowsAvg, n)}
    \cup {Table({"pollutant_id", "pm25", "latitude", "longitude"}, rs) :
        rs \in SeqUpTo(VariosRowsPm25, n)}

InitVarios ==
    \E t \in VariosTables(MaxRows) \cup {NoFile} :
        Start([EmptyDisk EXCEPT ![Raw("india_varios.csv")] = t], "clean_india_varios")

SpecVarios == InitVarios /\ [][clean_india_varios]_vars

MajorDates == {"", "bad", "2020-03-01"}
MajorAqi == {"", "x", "80"}

\* the Major tables of at most n rows
MajorTables(n) ==
    {Table({"Datetime", "AQI"}, rs) :
        rs \in SeqUpTo([Datetime : MajorDates, AQI : MajorAqi], n)}
    \cup {Table({"Date", "AQI"}, rs) :
        rs \in SeqUpTo([Date : MajorDates, AQI : MajorAqi], n)}
    \cup {Table({"Datetime", "Date", "AQI"}, rs) :
        rs \in SeqUpTo([Datetime : MajorDates, Date : {"", "2020-03-01"}, AQI : MajorAqi],
                       n)}

InitMajor ==
    \E t \in MajorTables(MaxRows) \cup {NoFile} :
        Start([EmptyDisk EXCEPT ![Raw("major_city.csv")] = t], "clean_major_city")

SpecMajor == InitMajor /\ [][clean_major_city]_vars

IndiaDates == {"NA", "bad", "2015-01-01"}
IndiaSampling == {"NA", "x"}
IndiaSo2 == {"N/A", "x", "4"}
IndiaState == {"", "Delhi"}

\* the India tables of at most n rows
IndiaTables(n) ==
    {Table({"date", "sampling_date", "so2", "state"}, rs) :
        rs \in SeqUpTo([date : IndiaDates, sampling_date : IndiaSampling,
                        so2 : IndiaSo2, state : IndiaState], n)}
    \cup {Table({"date", "so2", "state"}, rs) :
        rs \in SeqUpTo([date : IndiaDates, so2 : IndiaSo2, state : IndiaState], n)}
    \cup {Table({"sampling_date", "so2"}, rs) :
        rs \in SeqUpTo([sampling_date : IndiaSampling, so2 : IndiaSo2], n)}

InitIndia ==
    \E t \in IndiaTables(MaxRows) \cup {NoFile} :
        Start([EmptyDisk EXCEPT ![Raw("India_dataset.csv")] = t], "clean_india_dataset")

SpecIndia == InitIndia /\ [][clean_india_dataset]_vars

---------------------------------------------------------------------------
(* The whole script, run MaxRuns times on the same raw files *)

DelhiSamples ==
    {NoFile,
     Table({"datetime", "aqi", "pm25", "year"},
           <<[datetime |-> "2021-03-01", aqi |-> "150", pm25 |-> "80", year |-> "2020"],
             [datetime |-> "bad", aqi |-> "abc", pm25 |-> "", year |-> "2019"]>>),
     Table({"datetime", "aqi", "pm25", "year"},
           <<[datetime |-> "2021-03-01", aqi |-> "150", pm25 |-> "80", year |-> "abc"]>>)}

DelhiFallbackSamples ==
    {NoFile, Table({"aqi", "pm25"}, <<[aqi |-> "abc", pm25 |-> "80"]>>)}

CitySamples ==
    {NoFile,
     Table({"City", "Date", "AQI"},
           <<[City |-> "A", Date |-> "2015-01-01", AQI |-> "150"],
             [City |-> "A", Date |-> "2020-05-31", AQI |-> "80"],
             [City |-> "B", Date |-> "2019-12-31", AQI |-> "80"]>>),
     Table({"City", "Date", "AQI"},
           <<[City |-> "A", Date |-> "2019-12-31", AQI |-> "x"],
             [City |-> "", Date |-> "2020-03-01", AQI |-> "80"],
             [City |-> "B", Date |-> "bad", AQI |-> ""]>>)}

VariosSamples ==
    {NoFile,
     Table({"pollutant_id", "pollutant_avg", "latitude", "longitude"},
           <<[pollutant_id |-> "PM2.5", pollutant_avg |-> "35",
              latitude |-> "28", longitude |-> "77"]>>),
     Table({"pollutant_id", "pollutant_avg", "latitude", "longitude"},
           <<[pollutant_id |-> "pm2.5", pollutant_avg |-> "x",
              latitude |-> "28", longitude |-> ""],
             [pollutant_id |-> "", pollutant_avg |-> "35",
              latitude |-> "28", longitude |-> "77"]>>)}

MajorSamples ==
    {NoFile,
     Table({"Datetime", "AQI"}, <<[Datetime |-> "2020-03-01", AQI |-> "80"]>>),
     Table({"Date", "AQI"},
           <<[Date |-> "bad", AQI |-> "80"], [Date |-> "2020-03-01", AQI |-> "x"]>>)}

IndiaSamples ==
    {NoFile,
     Table({"date", "sampling_date", "so2"},
           <<[date |-> "2015-01-01", sampling_date |-> "x", so2 |-> "4"]>>),
     Table({"date", "sampling_date", "so2"},
           <<[date |-> "bad", sampling_date |-> "NA", so2 |-> "x"]>>)}

ProcessedAqiSamples ==
    {NoFile,
     Table({"timestamp", "aqi", "year"},
           <<[timestamp |-> "2021-03-01", aqi |-> "150", year |-> "2020"]>>),
     Table({"timestamp", "aqi", "year"},
           <<[timestamp |-> "bad", aqi |-> "abc", year |-> "x"]>>)}

GeoSamples ==
    {NoFile, Table({"bytes"}, <<[bytes |-> "{\"type\": \"FeatureCollection\"}"]>>)}

\* an output of an earlier run on other raw files
StaleFile == Table({"old"}, <<[old |-> Str("stale")]>>)

\* the contents of data/raw and data/processed when the script is first run
Disks ==
    {[x \in Paths |->
        CASE x = Raw("delhi_ncr_aqi.csv") -> d[1]
          [] x = Raw("delhi_ncr_aqi_dataset.csv") -> d[2]
          [] x = Raw("city_day.csv") -> d[3]
          [] x = Raw("india_varios.csv") -> d[4]
          [] x = Raw("major_city.csv") -> d[5]
          [] x = Raw("India_dataset.csv") -> d[6]
          [] x = Raw("processed_aqi_data.csv") -> d[7]
          [] x = Raw("india_states.geojson") -> d[8]
          [] OTHER -> d[9]] :
     d \in DelhiSamples \X DelhiFallbackSamples \X CitySamples \X VariosSamples
            \X MajorSamples \X IndiaSamples \X ProcessedAqiSamples \X GeoSamples
            \X {NoFile, StaleFile}}

\* before the first run: the raw files are not yet in place
Init == Start(EmptyDisk, "install")

\* the raw files are put under data/raw; python scripts/clean_raw_data.py
install ==
    /\ pc = "install"
    /\ fs' \in Disks
    /\ pc' = "main"
    /\ UNCHANGED <<console, run, firstRun, reads, writes>>

Next ==
    \/ install
    \/ main
    \/ clean_delhi_ncr_aqi
    \/ clean_city_day
    \/ clean_india_varios
    \/ clean_major_city
    \/ clean_india_dataset
    \/ clean_processed_aqi_data
    \/ copy_geojson
    \/ print_done
    \/ rerun

Spec == Init /\ [][Next]_vars

\* the process runs its statements one after the other until it ends
FairSpec == Spec /\ WF_vars(Next)

---------------------------------------------------------------------------
(* Properties *)

Last(q) == q[Len(q)]

Printed(kind) == \E i \in DOMAIN console : console[i].kind = kind

\* a field of a raw file that read_csv takes as present
PresentText(t) == t \notin DefaultNa

DelhiFile == fs[Out("delhi_ncr_aqi_2020_2024_clean.csv")]
CityCleanFile == fs[Out("city_day_clean.csv")]
CityChangeFile == fs[Out("covid_city_aqi_change_2015_2020.csv")]
VariosFile == fs[Out("india_pm25_snapshot_clean.csv")]
MajorFile == fs[Out("major_city_clean.csv")]
IndiaFile == fs[Out("india_historical_clean.csv")]

\* the step of a cleaner whose input is absent: nothing on disk changes, a
\* skip notice is printed and main() goes on with the next call
SkipStep(at, absent, name, next) ==
    (pc = at /\ absent) =>
        /\ fs' = fs
        /\ console' = Append(console, Line("Skip", name, 0))
        /\ pc' = next

Absent(name) == ~fs[Raw(name)].exists

DelhiAbsent == Absent("delhi_ncr_aqi.csv") /\ Absent("delhi_ncr_aqi_dataset.csv")

SkipsNow ==
    \/ pc = "clean_delhi_ncr_aqi" /\ DelhiAbsent
    \/ pc = "clean_city_day" /\ Absent("city_day.csv")
    \/ pc = "clean_india_varios" /\ Absent("india_varios.csv")
    \/ pc = "clean_major_city" /\ Absent("major_city.csv")
    \/ pc = "clean_india_dataset" /\ Absent("India_dataset.csv")
    \/ pc = "clean_processed_aqi_data" /\ Absent("processed_aqi_data.csv")
    \/ pc = "copy_geojson" /\ Absent("india_states.geojson")

Completed == pc = "done" /\ Last(console) = Line("Done.", "", 0)

\* C1: a component whose raw input is absent (for the Delhi-NCR cleaner: both
\* candidate files) changes no file, prints a skip notice and passes control
\* to the next component of the fixed order; the run then reaches the final
\* completion line.
C1_SkipIsNoOpAndRunCompletes ==
    /\ [][/\ SkipStep("clean_delhi_ncr_aqi", DelhiAbsent, "delhi_ncr", "clean_city_day")
          /\ SkipStep("clean_city_day", Absent("city_day.csv"), "city_day",
                      "clean_india_varios")
          /\ SkipStep("clean_india_varios", Absent("india_varios.csv"), "india_varios",
                      "clean_major_city")
          /\ SkipStep("clean_major_city", Absent("major_city.csv"), "major_city",
                      "clean_india_dataset")
          /\ SkipStep("clean_india_dataset", Absent("India_dataset.csv"), "India_dataset",
                      "clean_processed_aqi_data")
          /\ SkipStep("clean_processed_aqi_data", Absent("processed_aqi_data.csv"),
                      "processed_aqi_data", "copy_geojson")
          /\ SkipStep("copy_geojson", Absent("india_states.geojson"),
                      "india_states.geojson", "print_done")]_vars
    /\ (SkipsNow ~> Completed)

\* a run that skipped one component, saved the output of a later one and
\* printed the completion line
C1_Witness ==
    /\ Completed
    /\ \E i, j \in DOMAIN console :
          i < j /\ console[i].kind = "Skip" /\ console[j].kind = "Saved"

\* C2: every row of the Delhi-NCR output has a present aqi and a present pm25
\* and, when there is a year column, a year within [2020, 2024]; also for
\* rows whose aqi or pm25 text is not a number.
C2_DelhiRowsComplete ==
    DelhiFile.exists =>
        \A i \in DOMAIN DelhiFile.rows :
            LET r == DelhiFile.rows[i]
            IN  /\ notna(r["aqi"])
                /\ notna(r["pm25"])
                /\ "year" \in DelhiFile.cols =>
                      (r["year"].k = "num" /\ 2020 <= r["year"].n /\ r["year"].n <= 2024)

\* C3: every row of the major-city output has a present value in the chosen
\* datetime column (Datetime if the input has it, otherwise Date) and a
\* present AQI; also for rows whose AQI text is not a number.
C3_MajorRowsComplete ==
    MajorFile.exists =>
        \A i \in DOMAIN MajorFile.rows :
            LET r == MajorFile.rows[i]
                chosen == IF "Datetime" \in MajorFile.cols THEN "Datetime" ELSE "Date"
            IN  notna(r[chosen]) /\ notna(r["AQI"])

\* the cities with a row of the raw city-day file dated within [lo, hi]
CitiesIn(lo, hi) ==
    LET file == fs[Raw("city_day.csv")]
    IN  {file.rows[i]["City"] :
            i \in {j \in DOMAIN file.rows :
                     /\ PresentText(file.rows[j]["City"])
                     /\ file.rows[j]["Date"] \in DOMAIN DateVal
                     /\ lo <= DateVal[file.rows[j]["Date"]]
                     /\ DateVal[file.rows[j]["Date"]] <= hi}}

\* C4: the aggregate has exactly one row per city present in both the
\* 2015-01-01..2019-12-31 and the 2020-03-01..2020-05-31 subsets, no other
\* row, and every row carries a present baseline mean, event mean and change.
C4_AggregateRowsComplete ==
    CityChangeFile.exists =>
        LET both == CitiesIn(20150101, 20191231) \cap CitiesIn(20200301, 20200531)
            rows == CityChangeFile.rows
        IN  /\ {rows[i]["City"].s : i \in DOMAIN rows} = both
            /\ Len(rows) = Cardinality(both)
            /\ \A i \in DOMAIN rows :
                  /\ notna(rows[i]["aqi_pre"])
                  /\ notna(rows[i]["aqi_covid"])
                  /\ notna(rows[i]["aqi_drop"])

\* C5: each aggregate row's change is its baseline mean minus its event mean,
\* and of two consecutive rows the earlier one's change is greater than or
\* equal to the later one's.
C5_AggregateSortedByChange ==
    CityChangeFile.exists =>
        LET rows == CityChangeFile.rows
        IN  /\ \A i \in DOMAIN rows :
                  rows[i]["aqi_drop"] = Sub(rows[i]["aqi_pre"], rows[i]["aqi_covid"])
            /\ \A i \in 1..(Len(rows) - 1) :
                  Ge(rows[i]["aqi_drop"], rows[i + 1]["aqi_drop"])

\* the rows of the raw city-day file with a parseable date, a numeric AQI
\* and a city
CityKept ==
    SelectSeq(fs[Raw("city_day.csv")].rows,
              LAMBDA r : /\ PresentText(r["City"])
                         /\ r["Date"] \in DOMAIN DateVal
                         /\ r["AQI"] \in DOMAIN NumVal)

\* C6: the cleaned city-day table holds, in input order, exactly the input
\* rows with a parseable date, a numeric AQI and a city; each of its rows
\* carries that date, that AQI as a number and that city.
C6_CityCleanExactlyValidRows ==
    CityCleanFile.exists =>
        /\ Len(CityCleanFile.rows) = Len(CityKept)
        /\ \A i \in DOMAIN CityCleanFile.rows :
              LET r == CityCleanFile.rows[i]
              IN  /\ r["City"] = Str(CityKept[i]["City"])
                  /\ r["Date"] = Date(DateVal[CityKept[i]["Date"]])
                  /\ r["AQI"] = Num(NumVal[CityKept[i]["AQI"]])

\* a cleaned table that kept one row of the input and dropped another
C6_Witness ==
    /\ CityCleanFile.exists
    /\ Len(CityCleanFile.rows) >= 1
    /\ Len(CityCleanFile.rows) < Len(fs[Raw("city_day.csv")].rows)

\* the pollutant_id texts of the model that contain "PM2" in any letter case
Pm2Ids == {"PM2.5", "pm2.5", " Pm2.5 "}

\* C7: every row of the PM2.5 snapshot comes from an input row whose
\* pollutant_id contains "PM2" case-insensitively, and has a numeric pm25, a
\* latitude and a longitude; no input row without pollutant_id gets there.
C7_SnapshotRowsArePm2 ==
    VariosFile.exists =>
        LET file == fs[Raw("india_varios.csv")]
            avg == IF "pollutant_avg" \in file.cols THEN "pollutant_avg" ELSE "pm25"
        IN  \A i \in DOMAIN VariosFile.rows :
                LET r == VariosFile.rows[i]
                IN  /\ r["pollutant_id"].k = "str"
                    /\ r["pollutant_id"].s \in Pm2Ids
                    /\ r["pm25"].k = "num"
                    /\ notna(r["latitude"])
                    /\ notna(r["longitude"])
                    /\ \E j \in DOMAIN file.rows :
                          /\ file.rows[j]["pollutant_id"] = r["pollutant_id"].s
                          /\ file.rows[j][avg] \in DOMAIN NumVal
                          /\ NumVal[file.rows[j][avg]] = r["pm25"].n
                          /\ PresentText(file.rows[j]["latitude"])
                          /\ PresentText(file.rows[j]["longitude"])

\* a snapshot that kept a lower-case pm2.5 row and dropped another row
C7_Witness ==
    /\ VariosFile.exists
    /\ \E i \in DOMAIN VariosFile.rows : VariosFile.rows[i]["pollutant_id"] = Str("pm2.5")
    /\ Len(VariosFile.rows) < Len(fs[Raw("india_varios.csv")].rows)

\* C8: with every present input holding the expected columns, no malformed
\* field value aborts the run: each component writes its output and the run
\* goes on to the completion line.
C8_MalformedValuesNeverAbort ==
    /\ pc # "aborted"
    /\ pc = "done" =>
          /\ ~DelhiAbsent => Out("delhi_ncr_aqi_2020_2024_clean.csv") \in writes
          /\ ~Absent("city_day.csv") => Out("city_day_clean.csv") \in writes
          /\ ~Absent("india_varios.csv") => Out("india_pm25_snapshot_clean.csv") \in writes
          /\ ~Absent("major_city.csv") => Out("major_city_clean.csv") \in writes
          /\ ~Absent("India_dataset.csv") => Out("india_historical_clean.csv") \in writes
          /\ ~Absent("processed_aqi_data.csv") =>
                Out("processed_aqi_data_clean.csv") \in writes

\* C9: the historical India output has exactly the input columns with a
\* present value in some row (NA, N/A and the empty text read as absent),
\* sampling_date included, and every input row.
C9_IndiaKeepsExactlyNonEmptyColumns ==
    IndiaFile.exists =>
        LET file == fs[Raw("India_dataset.csv")]
            absent(t) == t \in DefaultNa \cup {"NA", "N/A", ""}
        IN  /\ IndiaFile.cols =
                  {c \in file.cols : \E i \in DOMAIN file.rows : ~absent(file.rows[i][c])}
            /\ Len(IndiaFile.rows) = Len(file.rows)

\* C10: a further run on the same raw files leaves data/processed as the
\* first run left it, and no cleaner reads a path that a cleaner has written.
C10_RerunIdempotent ==
    /\ (run >= 2 /\ pc \in {"done", "aborted"}) => Processed = firstRun
    /\ reads \cap writes = {}

\* a second run that completed after writing at least two outputs
C10_Witness ==
    /\ run = 2
    /\ Completed
    /\ Cardinality(writes) >= 2
    /\ \E f \in OutNames : Out(f) \in writes /\ fs[Out(f)].rows # <<>>

=============================================================================
